---- MODULE Spec2Model ----
(***************************************************************************)
(* Lifecycle orchestration of msand/ec2-github-runner (src/src/index.ts,   *)
(* lines 1-371, and its compiled form src/unnamed/part_001, lines 88-423). *)
(*                                                                         *)
(* One invocation of the action is one behaviour.  The main async flow     *)
(* (start() or stop()) is a sequential program whose position is pc; every *)
(* `await` of an external call is a state "the request is in flight", and  *)
(* the action that leaves it draws the response from a small set and then  *)
(* runs the continuation up to the next request, as the event loop does.   *)
(* The registration waiter's setInterval timer and the lookups its         *)
(* callbacks started are separate activities: timerArmed and inflight.     *)
(***************************************************************************)
EXTENDS Integers, Sequences, FiniteSets, TLC

VARIABLES
    mode,                    \* input `mode`
    githubToken,             \* input `github-token`
    label,                   \* input `label` (module level, used by removeRunner)
    ec2InstanceId,           \* input `ec2-instance-id` (module level, used by terminateEc2Instance)
    ec2Params,               \* input `ec2-params`, parsed: null or the override request
    named,                   \* the other inputs startEc2Instance reads, by their const names
    pc,                      \* position of the main flow
    startLabel,              \* start(): const label
    githubRegistrationToken, \* start(): const githubRegistrationToken
    startInstanceId,         \* start(): const ec2InstanceId
    calls,                   \* number of external requests issued, per kind
    lastArg,                 \* argument of the last request issued, per kind
    outputs,                 \* setOutput(name, value) calls made so far
    failedMsgs,              \* messages passed to setFailed so far
    log,                     \* info / error lines written so far
    attempts,                \* waitForRunnerRegistered: let attempts
    timerArmed,              \* the setInterval timer exists and is not cleared
    inflight,                \* lookups started by interval callbacks, not yet returned
    polled,                  \* lookups of interval callbacks that have returned
    promise,                 \* state of the promise waitForRunnerRegistered returns
    runner,                  \* removeRunner(): const runner
    quietTimer,              \* the setTimeout timer of the quiet period
    thrown,                  \* the value the main flow rejected with, if it did
    lookupIn,                \* listing response the last getRunner call received
    lookupOut,               \* what that getRunner call did with it
    result                   \* const result / const { status }: the last response, per kind

vars == <<mode, githubToken, label, ec2InstanceId, ec2Params, named, pc, startLabel, githubRegistrationToken,
          startInstanceId, calls, lastArg, outputs, failedMsgs, log, attempts,
          timerArmed, inflight, polled, promise, runner, quietTimer, thrown,
          lookupIn, lookupOut, result>>

----------------------------------------------------------------------------
(* Bounds of the model *)

\* Lookups of the registration wait that may be in flight together: the
\* environment is taken to answer a lookup before MaxInFlight further
\* timer ticks have passed.
MaxInFlight == 2

\* Cap of the lookup counter; the program itself stays below it
MaxLookups == 70

(* Constants of the program *)

timeoutMinutes == 5

retryIntervalSeconds == 5

quietPeriodSeconds == 15

\* The only status removeRunner accepts from the DELETE request
NoContent == 204

----------------------------------------------------------------------------
(* Values *)

\* Values of the input `mode`: not given, the two modes, and another word
Modes == {"", "start", "stop", "restart"}

\* Values of the input `github-token`: not given, or a token
GithubTokens == {"", "ghs_16C7e42F"}

Labels == {"ab3de", "zq81x"}

InstanceIds == {"i-0123", "i-0456"}

Tokens == {"tok123"}

\* A message: its fixed text with the number and the strings interpolated into it
Msg(text, num, strs) == [text |-> text, num |-> num, strs |-> strs]

\* A thrown or rejected JavaScript value: an Error object, or a primitive string
ErrorObj(m) == [kind |-> "Error", message |-> m]

StringVal(m) == [kind |-> "string", message |-> m]

\* An Error raised by the HTTP / AWS client for request `what`
TransportError(what) == ErrorObj(Msg("request failed", 0, <<what>>))

NoCalls == [token |-> 0, launch |-> 0, wait |-> 0, terminate |-> 0, list |-> 0, delete |-> 0]

NoArgs == [launcher |-> [label |-> "", token |-> ""], launch |-> <<>>, wait |-> "",
           terminate |-> "", list |-> "", delete |-> 0]

\* `undefined` and a defined value v, for a result that may be absent
Undefined == <<>>

Some(v) == <<v>>

NoResults == [launch |-> Undefined, wait |-> Undefined, terminate |-> Undefined,
              delete |-> Undefined]

\* `null`, for an input that parses to it
Null == <<>>

\* A string as text: the sequence of its words. The two placeholders of
\* prepareUserData are words of their own.
LabelPlaceholder == "${label}"

TokenPlaceholder == "${githubRegistrationToken}"

\* context.repo of the run
owner == "octo"

repo == "demo"

\* Every word a text of the model is made of; a word's position is its byte
Alphabet ==
    <<"#!/bin/bash", "cd", "mkdir actions-runner && cd actions-runner", "echo",
      "> pre-runner-script.sh", "source pre-runner-script.sh",
      "case $(uname -m) in ... esac && export RUNNER_ARCH=${ARCH}",
      "curl -O -L .../actions-runner-linux-${RUNNER_ARCH}-2.318.0.tar.gz",
      "tar xzf ./actions-runner-linux-${RUNNER_ARCH}-2.318.0.tar.gz",
      "export RUNNER_ALLOW_RUNASROOT=1", "./config.sh --url https://github.com/",
      "octo", "/", "demo", "--token", "--labels", "./run.sh",
      "${label}", "${githubRegistrationToken}", "ab3de", "zq81x", "tok123",
      "/opt/runner", "yum -y update", "docker run agent", "--name">>

info(lg, m) == lg \cup {[level |-> "info", msg |-> m]}

\* Variant: failures are written at info level
error_asInfo(lg, m) == info(lg, m)

error(lg, m) == lg \cup {[level |-> "error", msg |-> m]}

----------------------------------------------------------------------------
(* Responses of the external services *)

\* POST .../actions/runners/registration-token: a token, or the request throws
TokenResponses ==
    {[ok |-> TRUE, token |-> t] : t \in Tokens} \cup {[ok |-> FALSE, token |-> ""]}

\* result.Instances of a runInstances response: the list of the instances
\* launched; an entry's InstanceId is "" when the entry has none
InstanceLists ==
    {<<>>, <<[InstanceId |-> ""]>>, <<[InstanceId |-> ""], [InstanceId |-> "i-0456"]>>}
      \cup {<<[InstanceId |-> i]>> : i \in InstanceIds}
      \cup {<<[InstanceId |-> "i-0456"], [InstanceId |-> "i-0123"]>>}

\* runInstances: a result with or without its Instances, or the request throws
LaunchResponses ==
    {[ok |-> TRUE, Instances |-> Some(il)] : il \in InstanceLists}
      \cup {[ok |-> TRUE, Instances |-> Undefined], [ok |-> FALSE, Instances |-> Undefined]}

\* waitUntilInstanceRunning: a WaiterResult with its state, or the call throws
WaiterStates == {"SUCCESS", "TIMEOUT", "FAILURE", "ABORTED", "RETRY"}

WaitResponses ==
    {[ok |-> TRUE, state |-> st] : st \in WaiterStates} \cup {[ok |-> FALSE, state |-> ""]}

\* result.TerminatingInstances?.[0]?.CurrentState: absent, a number, or the
\* InstanceState object {Code, Name} of the AWS client
StateCodes == {0, 16, 32, 48, 64, 80, 99, 272, 304, 355}

StateValues ==
    {[t |-> "undefined", n |-> 0]}
      \cup {[t |-> "number", n |-> c] : c \in StateCodes}
      \cup {[t |-> "object", n |-> c] : c \in {16, 48}}

TerminateResponses ==
    {[ok |-> TRUE, CurrentState |-> v] : v \in StateValues}
      \cup {[ok |-> FALSE, CurrentState |-> [t |-> "undefined", n |-> 0]]}

\* DELETE .../actions/runners/{runner_id}: a response with its status, or the
\* request throws
DeleteResponses ==
    {[ok |-> TRUE, status |-> st] : st \in {204, 200, 202}} \cup {[ok |-> FALSE, status |-> 0]}

\* Runner records of the control plane
Runner(id, name, labels, status) ==
    [id |-> id, name |-> name, labels |-> labels, status |-> status]

\* GET .../actions/runners, paginated: the list of all runners, or the request throws
Listing(rs) == [ok |-> TRUE, runners |-> rs]

ListingError == [ok |-> FALSE, runners |-> <<>>]

Listings ==
    { ListingError,
      Listing(<<>>),
      Listing(<<Runner(7, "other", <<"self-hosted", "linux">>, "online")>>),
      Listing(<<Runner(7, "other", <<"self-hosted", "linux">>, "online"),
                Runner(11, "r-ab3de", <<"self-hosted", "ab3de">>, "offline")>>),
      Listing(<<Runner(11, "r-ab3de", <<"self-hosted", "ab3de">>, "online")>>),
      Listing(<<Runner(12, "r-zq81x", <<"zq81x">>, "offline")>>),
      Listing(<<Runner(7, "other", <<"self-hosted", "linux">>, "offline"),
                Runner(12, "r-zq81x", <<"self-hosted", "zq81x">>, "online"),
                Runner(13, "r-zq81x-b", <<"zq81x">>, "offline")>>) }

\* tagSpec: undefined without tags, else one specification for the instance
\* and one for its volume
TagSpec(tags) ==
    IF tags = <<>>
    THEN Undefined
    ELSE Some(<<[ResourceType |-> "instance", Tags |-> tags],
                [ResourceType |-> "volume", Tags |-> tags]>>)

\* The inputs read into module-level consts besides mode, label and
\* ec2-instance-id; "" is an input that is not given, and storageSize is the
\* number its digits denote (0 when not given)
NoNamed ==
    [ec2ImageId |-> "", ec2InstanceType |-> "", subnetId |-> "", securityGroupId |-> "",
     iamRoleName |-> "", keyName |-> "", storagePath |-> "", storageSize |-> 0,
     tagSpec |-> Undefined, runnerHomeDir |-> "", preRunnerScript |-> ""]

RequiredNamed ==
    [NoNamed EXCEPT !.ec2ImageId = "ami-1", !.ec2InstanceType = "t3.micro",
                    !.subnetId = "subnet-1", !.securityGroupId = "sg-1"]

AllNamed ==
    [RequiredNamed EXCEPT !.iamRoleName = "role-1", !.keyName = "key-1",
                          !.storagePath = "/dev/sda1", !.storageSize = 30,
                          !.tagSpec = TagSpec(<<[Key |-> "team", Value |-> "ci"]>>),
                          !.runnerHomeDir = "/opt/runner",
                          !.preRunnerScript = "yum -y update"]

\* Override requests (`ec2-params`): without UserData, with an empty one, with
\* UserData free of placeholders, and with UserData that uses them
OverrideBase ==
    [ImageId |-> "ami-9", InstanceType |-> "c5.large", MinCount |-> 1, MaxCount |-> 1,
     NetworkInterfaces |-> <<"eni-1">>]

OverrideWith(userData) ==
    [f \in DOMAIN OverrideBase \cup {"UserData"} |->
        IF f = "UserData" THEN userData ELSE OverrideBase[f]]

\* Start inputs the validation rejects: no override, and a required named
\* input missing
RejectedStartConfigs ==
    { [ec2Params |-> Null, named |-> NoNamed],
      [ec2Params |-> Null, named |-> [RequiredNamed EXCEPT !.ec2ImageId = ""]],
      [ec2Params |-> Null, named |-> [AllNamed EXCEPT !.ec2InstanceType = ""]],
      [ec2Params |-> Null, named |-> [RequiredNamed EXCEPT !.subnetId = ""]],
      [ec2Params |-> Null, named |-> [AllNamed EXCEPT !.securityGroupId = ""]] }

\* Start inputs the validation accepts
StartConfigs ==
    { [ec2Params |-> Null, named |-> RequiredNamed],
      [ec2Params |-> Null, named |-> AllNamed],
      [ec2Params |-> Some(OverrideBase), named |-> AllNamed],
      [ec2Params |-> Some(OverrideWith(<<>>)), named |-> NoNamed],
      [ec2Params |-> Some(OverrideWith(<<"#!/bin/bash", "docker run agent">>)),
       named |-> NoNamed],
      [ec2Params |-> Some(OverrideWith(<<"#!/bin/bash", "docker run agent", "--token",
                                         TokenPlaceholder, "--labels", LabelPlaceholder>>)),
       named |-> RequiredNamed],
      [ec2Params |-> Some(OverrideWith(<<"#!/bin/bash", "docker run agent", "--name",
                                         LabelPlaceholder, "--labels", LabelPlaceholder,
                                         "--token", TokenPlaceholder>>)),
       named |-> NoNamed] }

----------------------------------------------------------------------------
(* Pure parts of the program *)

\* A string interpolated into a template: no word when it is empty
Word(str) == IF str = "" THEN <<>> ELSE <<str>>

\* Variant: the runner is configured without its label
buildUserDataScript_noLabel(lbl, token, nm) ==
    <<"#!/bin/bash", "mkdir actions-runner && cd actions-runner",
      "./config.sh --url https://github.com/", owner, "/", repo, "--token">>
      \o Word(token) \o <<"./run.sh">>

\* buildUserDataScript: one of two templates, by runnerHomeDir
buildUserDataScript(lbl, token, nm) ==
    IF nm.runnerHomeDir # ""
    THEN <<"#!/bin/bash", "cd">> \o Word(nm.runnerHomeDir) \o <<"echo">>
           \o Word(nm.preRunnerScript)
           \o <<"> pre-runner-script.sh", "source pre-runner-script.sh",
                "export RUNNER_ALLOW_RUNASROOT=1", "./config.sh --url https://github.com/",
                owner, "/", repo, "--token">>
           \o Word(token) \o <<"--labels">> \o Word(lbl) \o <<"./run.sh">>
    ELSE <<"#!/bin/bash", "mkdir actions-runner && cd actions-runner", "echo">>
           \o Word(nm.preRunnerScript)
           \o <<"> pre-runner-script.sh", "source pre-runner-script.sh",
                "case $(uname -m) in ... esac && export RUNNER_ARCH=${ARCH}",
                "curl -O -L .../actions-runner-linux-${RUNNER_ARCH}-2.318.0.tar.gz",
                "tar xzf ./actions-runner-linux-${RUNNER_ARCH}-2.318.0.tar.gz",
                "export RUNNER_ALLOW_RUNASROOT=1", "./config.sh --url https://github.com/",
                owner, "/", repo, "--token">>
           \o Word(token) \o <<"--labels">> \o Word(lbl) \o <<"./run.sh">>

\* /\$\{(githubRegistrationToken|label)}/ matches the word
matches(w) == w \in {TokenPlaceholder, LabelPlaceholder}

\* replace[key] || key, for the object { githubRegistrationToken, label }: the
\* replacer is called with the whole matched substring as its key
replacer(key, lbl, token) ==
    LET value == CASE key = "githubRegistrationToken" -> token
                   [] key = "label" -> lbl
                   [] OTHER -> ""
    IN  IF value # "" THEN value ELSE key

\* prepareUserData: String.replace with a regular expression that has no g
\* flag replaces the first match only
prepareUserData(userData, lbl, token) ==
    IF \E i \in 1..Len(userData) : matches(userData[i])
    THEN LET first == CHOOSE i \in 1..Len(userData) :
                        /\ matches(userData[i])
                        /\ \A j \in 1..(i - 1) : ~matches(userData[j])
         IN  [userData EXCEPT ![first] = replacer(userData[first], lbl, token)]
    ELSE userData

\* Buffer.from(string): the bytes of the text
bufferFrom(text) ==
    [i \in 1..Len(text) |-> CHOOSE b \in 1..Len(Alphabet) : Alphabet[b] = text[i]]

\* toString(`base64`): three bytes become four 6-bit digits; 64 stands for the
\* padding character
RECURSIVE toBase64(_)
toBase64(bytes) ==
    CASE Len(bytes) = 0 -> <<>>
      [] Len(bytes) = 1 ->
           <<bytes[1] \div 4, (bytes[1] % 4) * 16, 64, 64>>
      [] Len(bytes) = 2 ->
           <<bytes[1] \div 4, (bytes[1] % 4) * 16 + bytes[2] \div 16,
             (bytes[2] % 16) * 4, 64>>
      [] OTHER ->
           <<bytes[1] \div 4, (bytes[1] % 4) * 16 + bytes[2] \div 16,
             (bytes[2] % 16) * 4 + bytes[3] \div 64, bytes[3] % 64>>
             \o toBase64(SubSeq(bytes, 4, Len(bytes)))

\* { ...a, ...b }
Spread(a, b) ==
    [f \in DOMAIN a \cup DOMAIN b |-> IF f \in DOMAIN b THEN b[f] ELSE a[f]]

\* ec2Params?.UserData, with the empty text for undefined
overrideUserData(ec2P) ==
    IF ec2P # Null /\ "UserData" \in DOMAIN ec2P[1] THEN ec2P[1].UserData ELSE <<>>

\* The request startEc2Instance builds from the named inputs
namedParams(nm, userData) ==
    Spread(
      Spread(
        Spread([ImageId |-> nm.ec2ImageId, InstanceType |-> nm.ec2InstanceType,
                MinCount |-> 1, MaxCount |-> 1, UserData |-> userData,
                SubnetId |-> nm.subnetId,
                SecurityGroupIds |-> <<nm.securityGroupId>>,
                IamInstanceProfile |-> [Name |-> nm.iamRoleName]],
               IF nm.tagSpec # Undefined
               THEN [TagSpecifications |-> nm.tagSpec[1]] ELSE <<>>),
        IF nm.keyName # "" THEN [KeyName |-> nm.keyName] ELSE <<>>),
      IF nm.storagePath # "" /\ nm.storageSize # 0
      THEN [BlockDeviceMappings |->
              <<[DeviceName |-> nm.storagePath,
                 Ebs |-> [DeleteOnTermination |-> TRUE, VolumeSize |-> nm.storageSize]]>>]
      ELSE <<>>)

\* Variant: the override is laid over the request built from the named inputs
params_overNamed(ec2P, nm, userData) ==
    IF ec2P # Null
    THEN Spread(namedParams(nm, userData), Spread(ec2P[1], [UserData |-> userData]))
    ELSE namedParams(nm, userData)

\* const params of startEc2Instance
params(ec2P, nm, userData) ==
    IF ec2P # Null
    THEN Spread(ec2P[1], [UserData |-> userData])
    ELSE namedParams(nm, userData)

\* startEc2Instance up to its request: the params it passes to runInstances
launchParams(lbl, token, ec2P, nm) ==
    LET ud == overrideUserData(ec2P)
        userDataString == IF ud # <<>>
                          THEN prepareUserData(ud, lbl, token)
                          ELSE buildUserDataScript(lbl, token, nm)
    IN  params(ec2P, nm, toBase64(bufferFrom(userDataString)))

\* Variant: only the first label of a runner is compared (as in the older gh.js)
hasLabel_first(r, lbl) == r.labels[1] = lbl

\* runner.labels.some((l) => l.name === label)
hasLabel(r, lbl) == \E i \in 1..Len(r.labels) : r.labels[i] = lbl

\* Variant: the first listed runner is taken, whatever its labels
find_firstListed(rs, lbl) == IF Len(rs) > 0 THEN Some(rs[1]) ELSE Undefined

\* runners.find(...): the first match in listing order, or undefined
find(rs, lbl) ==
    IF \E i \in 1..Len(rs) : hasLabel(rs[i], lbl)
    THEN Some(rs[CHOOSE i \in 1..Len(rs) :
                    /\ hasLabel(rs[i], lbl)
                    /\ \A j \in 1..(i - 1) : ~hasLabel(rs[j], lbl)])
    ELSE Undefined

\* Variant: the catch block rethrows the listing error
getRunner_rethrows(listing, lbl) ==
    IF listing.ok
    THEN [threw |-> FALSE, value |-> find(listing.runners, lbl), logged |-> FALSE]
    ELSE [threw |-> TRUE, value |-> Undefined, logged |-> TRUE]

\* Variant: a label that no runner carries is reported by throwing
getRunner_throwsNotFound(listing, lbl) ==
    IF listing.ok
    THEN [threw |-> find(listing.runners, lbl) = Undefined,
          value |-> find(listing.runners, lbl), logged |-> FALSE]
    ELSE [threw |-> FALSE, value |-> Undefined, logged |-> TRUE]

\* getRunner: what the call does with the listing response it awaited: the
\* value it returns, whether it threw instead, and whether its catch block
\* logged `Get runner error`
getRunner(listing, lbl) ==
    IF listing.ok
    THEN [threw |-> FALSE, value |-> find(listing.runners, lbl), logged |-> FALSE]
    ELSE [threw |-> FALSE, value |-> Undefined, logged |-> TRUE]

\* Variant: any runner that carries the label counts as registered
isOnline_anyStatus(r) == r # Undefined

\* runner?.status === `online`
isOnline(r) == r # Undefined /\ r[1].status = "online"

\* let attempts = Math.ceil(timeout / retryIntervalSeconds)
initialAttempts ==
    LET timeout == timeoutMinutes * 60
    IN  (timeout + retryIntervalSeconds - 1) \div retryIntervalSeconds

\* Variant: the number is taken whole, without the mask
lowByte_whole(cs) == IF cs.t = "number" THEN cs.n ELSE 0

\* +(CurrentState ?? 0) & 255: ToNumber of an object is NaN, and NaN & 255 is 0
lowByte(cs) ==
    CASE cs.t = "undefined" -> 0
      [] cs.t = "number" -> cs.n % 256
      [] cs.t = "object" -> 0

\* Variant: only the code of `terminated` is given a name
description_onlyTerminated(cs) ==
    IF lowByte(cs) = 48
    THEN [isString |-> TRUE, str |-> "terminated", num |-> 48]
    ELSE [isString |-> FALSE, str |-> "", num |-> lowByte(cs)]

\* description: the state's name, or the low byte itself when it is not one of
\* the four recognized codes
description(cs) ==
    LET b == lowByte(cs)
    IN  CASE b = 32 -> [isString |-> TRUE, str |-> "shutting-down", num |-> b]
          [] b = 48 -> [isString |-> TRUE, str |-> "terminated", num |-> b]
          [] b = 64 -> [isString |-> TRUE, str |-> "stopping", num |-> b]
          [] b = 80 -> [isString |-> TRUE, str |-> "stopped", num |-> b]
          [] OTHER -> [isString |-> FALSE, str |-> "", num |-> b]

\* err(message): setFailed(message), error(e), throw e. The effects on the
\* failure messages and on the log, and the Error thrown
err(message, lg, fm) ==
    [log |-> error(lg, message), failedMsgs |-> fm \cup {message}, e |-> ErrorObj(message)]

\* Variant: the catch block logs and does not rethrow
tokenThrows_swallowed(r) == FALSE

\* Variant: the inputs of the stop mode are not examined
validate_startOnly(md, token, ec2P, nm, lbl, id) ==
    IF md = "" THEN "The mode input is not specified"
    ELSE IF token = "" THEN "The github-token input is not specified"
    ELSE IF md = "start" /\ ec2P = Null
              /\ (nm.ec2ImageId = "" \/ nm.ec2InstanceType = "" \/ nm.subnetId = ""
                    \/ nm.securityGroupId = "")
    THEN "Not all the required inputs are provided for the start mode"
    ELSE ""

\* The validation of the inputs at module level: the message of the first
\* err() it reaches, or "" when it reaches none
validate(md, token, ec2P, nm, lbl, id) ==
    IF md = "" THEN "The mode input is not specified"
    ELSE IF token = "" THEN "The github-token input is not specified"
    ELSE IF md = "start"
    THEN IF ec2P = Null
              /\ (nm.ec2ImageId = "" \/ nm.ec2InstanceType = "" \/ nm.subnetId = ""
                    \/ nm.securityGroupId = "")
         THEN "Not all the required inputs are provided for the start mode"
         ELSE ""
    ELSE IF md = "stop"
    THEN IF lbl = "" \/ id = ""
         THEN "Not all the required inputs are provided for the stop mode"
         ELSE ""
    ELSE "Wrong mode. Allowed values: start, stop."

\* getRegistrationToken ends by throwing
tokenThrows(r) == ~r.ok

\* result.Instances?.[0]?.InstanceId, with "" for undefined
firstInstanceId(r) ==
    IF r.Instances = Undefined \/ r.Instances[1] = <<>>
    THEN ""
    ELSE r.Instances[1][1].InstanceId

\* Variant: the response is not examined (as in the older aws.ts)
launchThrows_anyResult(r) == ~r.ok

\* startEc2Instance ends by throwing
launchThrows(r) == ~r.ok \/ firstInstanceId(r) = ""

\* Variant: the wait's result is not examined (as in the older aws.ts)
readyThrows_anyResult(r) == ~r.ok

\* waitForInstanceRunning ends by throwing
readyThrows(r) == ~r.ok \/ r.state # "SUCCESS"

\* Variant: err() reports the failure and returns instead of throwing
terminateThrows_errReturns(r) == ~r.ok

\* terminateEc2Instance ends by throwing
terminateThrows(r) == ~r.ok \/ ~description(r.CurrentState).isString

\* Variant: the response's status is not looked at
deleteThrows_anyStatus(r) == ~r.ok

\* Variant: the DELETE request is expected to answer 200 OK
deleteThrows_wants200(r) == ~r.ok \/ r.status # 200

\* the DELETE part of removeRunner ends by throwing
deleteThrows(r) == ~r.ok \/ r.status # NoContent

\* Variant: the comparison is inverted, so a fresh budget counts as used up
exhausted_inverted(a) == a > 0

\* Variant: the exhausted budget is never noticed
exhausted_never(a) == FALSE

\* attempts-- < 0 compares the value attempts had before the decrement
exhausted(a) == a < 0

\* Variant: the two values are given to the wrong outputs
setOutputs_swapped(outs, lbl, id) ==
    outs \cup {[name |-> "label", value |-> id], [name |-> "ec2-instance-id", value |-> lbl]}

\* Variant: the outputs are not set
setOutputs_none(outs, lbl, id) == outs

\* Variant: only the label is set
setOutputs_labelOnly(outs, lbl, id) == outs \cup {[name |-> "label", value |-> lbl]}

\* setOutput(`label`, label); setOutput(`ec2-instance-id`, ec2InstanceId)
setOutputs(outs, lbl, id) ==
    outs \cup {[name |-> "label", value |-> lbl], [name |-> "ec2-instance-id", value |-> id]}

\* A JavaScript value is truthy: every object, and every string but the empty one
Truthy(e) == e.kind = "Error" \/ e.message.text # ""

\* `message` in e: a TypeError when e is a primitive
inThrows(e) == e.kind = "string"

\* Variant: the handler reports the failure and runs the path once more
catchHandler_retries(e, lg, fm) ==
    [log |-> error(lg, e.message), failedMsgs |-> fm \cup {e.message}, pc |-> "main"]

\* The handler of (mode === `start` ? start : stop)().catch(...): error(e), then
\* setFailed(e && `message` in e ? e.message : e). When the `in` test throws,
\* the handler itself rejects and nothing handles that.
catchHandler(e, lg, fm) ==
    LET lg1 == error(lg, e.message)
    IN  IF Truthy(e) /\ inThrows(e)
        THEN [log |-> lg1, failedMsgs |-> fm, pc |-> "unhandled"]
        ELSE [log |-> lg1, failedMsgs |-> fm \cup {e.message}, pc |-> "failed"]

\* Variant: the quiet period's promise is created and not awaited, so the
\* interval timer is set at once
waiterEntry_noAwait ==
    [pc |-> "polling", quietTimer |-> "armed", timerArmed |-> TRUE, promise |-> "pending"]

\* waitForRunnerRegistered up to its first await: the quiet period's timer is
\* set and the function is suspended on it
waiterEntry ==
    [pc |-> "quiet", quietTimer |-> "armed", timerArmed |-> FALSE, promise |-> "none"]

\* resolve() / reject() of a promise: only a pending promise changes state
settle(p, to) == IF p = "pending" THEN to ELSE p

----------------------------------------------------------------------------
(* The state machine *)

inputs == <<mode, githubToken, label, ec2InstanceId, ec2Params, named>>

startVars == <<startLabel, githubRegistrationToken, startInstanceId>>

waiterVars == <<attempts, timerArmed, inflight, polled, promise, quietTimer>>

lookupVars == <<lookupIn, lookupOut>>

Init ==
    /\ mode \in Modes
    /\ githubToken \in GithubTokens
    /\ label \in (IF mode = "stop" THEN Labels \cup {""} ELSE {""})
    /\ ec2InstanceId \in (IF mode = "stop" THEN InstanceIds \cup {""} ELSE {""})
    /\ \E c \in (IF mode = "start" THEN StartConfigs \cup RejectedStartConfigs
                                    ELSE {[ec2Params |-> Null, named |-> NoNamed]}) :
          ec2Params = c.ec2Params /\ named = c.named
    /\ pc = "load"
    /\ startLabel = ""
    /\ githubRegistrationToken = ""
    /\ startInstanceId = ""
    /\ calls = NoCalls
    /\ lastArg = NoArgs
    /\ outputs = {}
    /\ failedMsgs = {}
    /\ log = {}
    /\ attempts = 0
    /\ timerArmed = FALSE
    /\ inflight = 0
    /\ polled = 0
    /\ promise = "none"
    /\ runner = Undefined
    /\ quietTimer = "none"
    /\ thrown = Undefined
    /\ lookupIn = Undefined
    /\ lookupOut = [threw |-> FALSE, value |-> Undefined, logged |-> FALSE]
    /\ result = NoResults

\* The main flow rejects with e: the top-level catch handler runs
Rejected(e, lg, fm) ==
    LET h == catchHandler(e, lg, fm)
    IN  /\ log' = h.log
        /\ failedMsgs' = h.failedMsgs
        /\ pc' = h.pc
        /\ thrown' = Some(e)

\* The module is loaded: the inputs are read and validated. An err() at module
\* level reports the failure and its throw ends the process, before the line
\* that calls start() or stop() is reached
ValidateInput ==
    /\ pc = "load"
    /\ LET message == validate(mode, githubToken, ec2Params, named, label, ec2InstanceId)
           x == err(Msg(message, 0, <<>>), log, failedMsgs)
       IN  IF message # ""
           THEN /\ log' = x.log
                /\ failedMsgs' = x.failedMsgs
                /\ thrown' = Some(x.e)
                /\ pc' = "failed"
           ELSE /\ pc' = "main"
                /\ UNCHANGED <<log, failedMsgs, thrown>>
    /\ UNCHANGED <<inputs, result, startVars, calls, lastArg, outputs, waiterVars, runner,
                   lookupVars>>

\* start(): generateUniqueLabel(), then getRegistrationToken() sends its request
\* The entry point the last statement of the program calls:
\* (mode === `start` ? start : stop)()
entryPoint_inverted(md) == IF md = "start" THEN "stop" ELSE "start"

entryPoint(md) == IF md = "start" THEN "start" ELSE "stop"

Start ==
    /\ pc = "main" /\ entryPoint(mode) = "start"
    /\ \E l \in Labels : startLabel' = l
    /\ calls' = [calls EXCEPT !.token = @ + 1]
    /\ pc' = "token"
    /\ UNCHANGED <<inputs, result, githubRegistrationToken, startInstanceId, lastArg, outputs,
                   failedMsgs, log, waiterVars, runner, thrown, lookupVars>>

\* The token request returns; on success startEc2Instance sends runInstances
TokenReturn ==
    /\ pc = "token"
    /\ \E r \in TokenResponses :
        LET lg1 == IF r.ok
                   THEN info(log, Msg("GitHub Registration Token is received", 0, <<>>))
                   ELSE error(log, Msg("GitHub Registration Token receiving error", 0, <<>>))
        IN  IF tokenThrows(r)
            THEN /\ Rejected(TransportError("registration-token"), lg1, failedMsgs)
                 /\ UNCHANGED <<githubRegistrationToken, calls, lastArg>>
            ELSE /\ log' = lg1
                 /\ githubRegistrationToken' = r.token
                 /\ calls' = [calls EXCEPT !.launch = @ + 1]
                 /\ lastArg' = [lastArg EXCEPT
                                 !.launcher = [label |-> startLabel, token |-> r.token],
                                 !.launch = Some(launchParams(startLabel, r.token,
                                                              ec2Params, named))]
                 /\ pc' = "launch"
                 /\ UNCHANGED <<failedMsgs, thrown>>
    /\ UNCHANGED <<inputs, result, startLabel, startInstanceId, outputs, waiterVars, runner,
                   lookupVars>>

\* runInstances returns; on success the outputs are set and
\* waitForInstanceRunning sends its wait call
LaunchReturn ==
    /\ pc = "launch"
    /\ \E r \in LaunchResponses :
        /\ result' = [result EXCEPT !.launch = Some(r)]
        /\ LET id == firstInstanceId(r)
               lg1 == IF r.ok /\ id # ""
                      THEN info(log, Msg("AWS EC2 instance is started", 0, <<id>>))
                      ELSE error(log, Msg("AWS EC2 instance starting error", 0, <<>>))
           IN  IF launchThrows(r)
               THEN /\ Rejected(IF r.ok THEN ErrorObj(Msg("No ec2 instance id returned", 0, <<>>))
                                        ELSE TransportError("runInstances"),
                                lg1, failedMsgs)
                    /\ UNCHANGED <<startInstanceId, calls, lastArg, outputs>>
               ELSE /\ log' = lg1
                    /\ startInstanceId' = id
                    /\ outputs' = setOutputs(outputs, startLabel, id)
                    /\ calls' = [calls EXCEPT !.wait = @ + 1]
                    /\ lastArg' = [lastArg EXCEPT !.wait = id]
                    /\ pc' = "ready"
                    /\ UNCHANGED <<failedMsgs, thrown>>
    /\ UNCHANGED <<inputs, startLabel, githubRegistrationToken, waiterVars, runner,
                   lookupVars>>

\* waitUntilInstanceRunning returns; on SUCCESS waitForRunnerRegistered starts
\* and suspends on the quiet period
ReadyReturn ==
    /\ pc = "ready"
    /\ \E r \in WaitResponses :
        /\ result' = [result EXCEPT !.wait = Some(r)]
        /\ LET bad == r.ok /\ r.state # "SUCCESS"
               x == err(Msg("AWS EC2 instance initialization error state", 0,
                            <<startInstanceId, r.state>>), log, failedMsgs)
               lg1 == IF bad THEN x.log ELSE log
               fm1 == IF bad THEN x.failedMsgs ELSE failedMsgs
           IN  IF readyThrows(r)
               THEN /\ Rejected(IF r.ok THEN x.e ELSE TransportError("waitUntilInstanceRunning"),
                                error(lg1, Msg("AWS EC2 instance initialization error", 0,
                                               <<startInstanceId>>)),
                                fm1)
                    /\ UNCHANGED <<attempts, timerArmed, promise, quietTimer>>
               ELSE /\ log' = info(
                                 IF bad THEN lg1
                                 ELSE info(lg1, Msg("AWS EC2 instance is up and running", 0,
                                                    <<startInstanceId>>)),
                                 Msg("Waiting for the AWS EC2 instance to be registered",
                                     quietPeriodSeconds, <<>>))
                    /\ failedMsgs' = fm1
                    /\ attempts' = initialAttempts
                    /\ pc' = waiterEntry.pc
                    /\ quietTimer' = waiterEntry.quietTimer
                    /\ timerArmed' = waiterEntry.timerArmed
                    /\ promise' = waiterEntry.promise
                    /\ UNCHANGED thrown
    /\ UNCHANGED <<inputs, startVars, calls, lastArg, outputs, inflight, polled, runner,
                   lookupVars>>

\* The quiet period's timer fires: the waiter creates its promise and the
\* interval timer
QuietElapsed ==
    /\ quietTimer = "armed"
    /\ quietTimer' = "fired"
    /\ IF pc = "quiet"
       THEN /\ log' = info(log, Msg("Checking if the GitHub self-hosted runner is registered",
                                    retryIntervalSeconds, <<>>))
            /\ promise' = "pending"
            /\ timerArmed' = TRUE
            /\ pc' = "polling"
       ELSE UNCHANGED <<log, promise, timerArmed, pc>>
    /\ UNCHANGED <<inputs, result, startVars, calls, lastArg, outputs, failedMsgs, attempts,
                   inflight, polled, runner, thrown, lookupVars>>

\* The interval timer fires: its callback logs and starts a lookup
Tick ==
    /\ timerArmed
    /\ inflight < MaxInFlight
    /\ calls.list < MaxLookups
    /\ log' = info(log, Msg("Checking...", 0, <<>>))
    /\ calls' = [calls EXCEPT !.list = @ + 1]
    /\ lastArg' = [lastArg EXCEPT !.list = startLabel]
    /\ inflight' = inflight + 1
    /\ UNCHANGED <<inputs, result, pc, startVars, outputs, failedMsgs, attempts, timerArmed,
                   polled, promise, runner, quietTimer, thrown, lookupVars>>

\* A lookup of an interval callback returns and the callback runs to its end;
\* settling the promise resumes start(), which ends or rejects. The rejection
\* that nothing handles ends the Node process, so no callback runs after it
LookupReturn ==
    /\ inflight > 0
    /\ pc # "unhandled"
    /\ inflight' = inflight - 1
    /\ polled' = polled + 1
    /\ \E listing \in Listings :
        LET res == getRunner(listing, startLabel)
            lg1 == IF res.logged
                   THEN error(log, Msg("Get runner error", 0, <<"request failed">>))
                   ELSE log
        IN  /\ lookupIn' = Some(listing)
            /\ lookupOut' = res
            /\ CASE res.threw ->
                      /\ pc' = "unhandled"
                      /\ UNCHANGED <<log, failedMsgs, attempts, timerArmed, promise, thrown>>
                 [] ~res.threw /\ isOnline(res.value) ->
                      /\ log' = info(lg1, Msg("GitHub self-hosted runner is registered and ready to use",
                                             0, <<res.value[1].name>>))
                      /\ timerArmed' = FALSE
                      /\ promise' = settle(promise, "resolved")
                      /\ pc' = IF promise = "pending" THEN "done" ELSE pc
                      /\ UNCHANGED <<failedMsgs, attempts, thrown>>
                 [] ~res.threw /\ ~isOnline(res.value) /\ exhausted(attempts) ->
                      /\ attempts' = attempts - 1
                      /\ timerArmed' = FALSE
                      /\ promise' = settle(promise, "rejected")
                      /\ IF promise = "pending"
                         THEN Rejected(StringVal(Msg("A timeout is exceeded", timeoutMinutes, <<>>)),
                                       error(lg1, Msg("GitHub self-hosted runner registration error",
                                                      0, <<>>)),
                                       failedMsgs)
                         ELSE /\ log' = error(lg1, Msg("GitHub self-hosted runner registration error",
                                                       0, <<>>))
                              /\ UNCHANGED <<failedMsgs, pc, thrown>>
                 [] OTHER ->
                      /\ attempts' = attempts - 1
                      /\ log' = lg1
                      /\ UNCHANGED <<failedMsgs, timerArmed, promise, pc, thrown>>
    /\ UNCHANGED <<inputs, result, startVars, calls, lastArg, outputs, runner, quietTimer>>

\* stop(): terminateEc2Instance() sends terminateInstances
Stop ==
    /\ pc = "main" /\ entryPoint(mode) = "stop"
    /\ calls' = [calls EXCEPT !.terminate = @ + 1]
    /\ lastArg' = [lastArg EXCEPT !.terminate = ec2InstanceId]
    /\ pc' = "terminate"
    /\ UNCHANGED <<inputs, result, startVars, outputs, failedMsgs, log, waiterVars, runner,
                   thrown, lookupVars>>

\* terminateInstances returns; on a recognized state removeRunner starts and
\* getRunner sends the listing request
TerminateReturn ==
    /\ pc = "terminate"
    /\ \E r \in TerminateResponses :
        /\ result' = [result EXCEPT !.terminate = Some(r)]
        /\ LET d == description(r.CurrentState)
               bad == r.ok /\ ~d.isString
               x == err(Msg("Failed to terminate, EC2 instance has state", d.num, <<>>),
                        log, failedMsgs)
               lg1 == CASE bad -> x.log
                        [] r.ok /\ ~bad -> info(log, Msg("AWS EC2 instance is", 0,
                                                         <<ec2InstanceId, d.str>>))
                        [] OTHER -> log
               fm1 == IF bad THEN x.failedMsgs ELSE failedMsgs
           IN  IF terminateThrows(r)
               THEN /\ Rejected(IF r.ok THEN x.e ELSE TransportError("terminateInstances"),
                                error(lg1, Msg("AWS EC2 instance termination error", 0,
                                               <<ec2InstanceId>>)),
                                fm1)
                    /\ UNCHANGED <<calls, lastArg>>
               ELSE /\ log' = lg1
                    /\ failedMsgs' = fm1
                    /\ calls' = [calls EXCEPT !.list = @ + 1]
                    /\ lastArg' = [lastArg EXCEPT !.list = label]
                    /\ pc' = "lookup"
                    /\ UNCHANGED thrown
    /\ UNCHANGED <<inputs, startVars, outputs, waiterVars, runner, lookupVars>>

\* removeRunner's lookup returns: no runner ends stop(); a runner makes it
\* send the DELETE request for the runner's id
RemoveLookupReturn ==
    /\ pc = "lookup"
    /\ \E listing \in Listings :
        LET res == getRunner(listing, label)
            lg1 == IF res.logged
                   THEN error(log, Msg("Get runner error", 0, <<"request failed">>))
                   ELSE log
        IN  /\ lookupIn' = Some(listing)
            /\ lookupOut' = res
            /\ CASE res.threw ->
                      /\ Rejected(TransportError("listRunners"), lg1, failedMsgs)
                      /\ UNCHANGED <<runner, calls, lastArg>>
                 [] ~res.threw /\ res.value = Undefined ->
                      /\ log' = info(lg1, Msg("GitHub self-hosted runner is not found, so the removal is skipped",
                                             0, <<label>>))
                      /\ pc' = "done"
                      /\ UNCHANGED <<runner, calls, lastArg, failedMsgs, thrown>>
                 [] OTHER ->
                      /\ runner' = res.value
                      /\ calls' = [calls EXCEPT !.delete = @ + 1]
                      /\ lastArg' = [lastArg EXCEPT !.delete = res.value[1].id]
                      /\ pc' = "delete"
                      /\ log' = lg1
                      /\ UNCHANGED <<failedMsgs, thrown>>
    /\ UNCHANGED <<inputs, result, startVars, outputs, waiterVars>>

\* The DELETE request returns: status 204 ends stop(); anything else is fatal
DeleteReturn ==
    /\ pc = "delete"
    /\ \E r \in DeleteResponses :
        /\ result' = [result EXCEPT !.delete = Some(r)]
        /\ LET bad == r.ok /\ r.status # NoContent
               x == err(Msg("Failed to remove runner, status", r.status, <<runner[1].name>>),
                        log, failedMsgs)
               lg1 == CASE bad -> x.log
                        [] r.ok /\ ~bad -> info(log, Msg("GitHub self-hosted runner is removed", 0,
                                                         <<runner[1].name>>))
                        [] OTHER -> log
               fm1 == IF bad THEN x.failedMsgs ELSE failedMsgs
           IN  IF deleteThrows(r)
               THEN Rejected(IF r.ok THEN x.e ELSE TransportError("deleteRunner"),
                             error(lg1, Msg("GitHub self-hosted runner removal error", 0, <<>>)),
                             fm1)
               ELSE /\ log' = lg1
                    /\ failedMsgs' = fm1
                    /\ pc' = "done"
                    /\ UNCHANGED thrown
    /\ UNCHANGED <<inputs, startVars, calls, lastArg, outputs, waiterVars, runner,
                   lookupVars>>

Next ==
    \/ ValidateInput
    \/ Start
    \/ TokenReturn
    \/ LaunchReturn
    \/ ReadyReturn
    \/ QuietElapsed
    \/ Tick
    \/ LookupReturn
    \/ Stop
    \/ TerminateReturn
    \/ RemoveLookupReturn
    \/ DeleteReturn

Spec == Init /\ [][Next]_vars

\* Timers fire and every request is answered
FairSpec ==
    /\ Spec
    /\ WF_vars(QuietElapsed)
    /\ WF_vars(Tick)
    /\ WF_vars(LookupReturn)
    /\ WF_vars(TokenReturn)
    /\ WF_vars(LaunchReturn)
    /\ WF_vars(ReadyReturn)

----------------------------------------------------------------------------
(* Properties *)

logged(level, text) == \E l \in log : l.level = level /\ l.msg.text = text

tokenOk == logged("info", "GitHub Registration Token is received")

tokenFailed == logged("error", "GitHub Registration Token receiving error")

launchOk == logged("info", "AWS EC2 instance is started")

launchFailed == logged("error", "AWS EC2 instance starting error")

readyOk == logged("info", "AWS EC2 instance is up and running")

readyFailed == logged("error", "AWS EC2 instance initialization error")

terminateOk == logged("info", "AWS EC2 instance is")

terminateFailed ==
    \/ logged("error", "AWS EC2 instance termination error")
    \/ logged("error", "Failed to terminate, EC2 instance has state")

\* The registration waiter has been entered
waiterStarted == quietTimer # "none"

\* C1: on the start path the steps run in the order token fetch, launch,
\* ready wait, registration wait; a step begins only after the one before it
\* has completed successfully, and after a step's fatal error no later step
\* is ever started.
C1_StartStepsInOrder ==
    mode = "start" =>
        /\ (calls.launch > 0 => (calls.token = 1 /\ tokenOk /\ ~tokenFailed))
        /\ (calls.wait > 0 => (calls.launch = 1 /\ launchOk /\ ~launchFailed))
        /\ (waiterStarted => (calls.wait = 1 /\ readyOk /\ ~readyFailed))
        /\ (calls.list > 0 => waiterStarted)
        /\ (tokenFailed => (calls.launch = 0 /\ calls.wait = 0 /\ ~waiterStarted))
        /\ (launchFailed => (calls.wait = 0 /\ ~waiterStarted))
        /\ (readyFailed => (~waiterStarted /\ calls.list = 0))

\* C1 witness: a start run in which all four steps were started
C1_Witness == mode = "start" /\ waiterStarted /\ calls.list > 0 /\ calls.token = 1

bothOutputs ==
    {[name |-> "label", value |-> startLabel],
     [name |-> "ec2-instance-id", value |-> startInstanceId]}

\* C2: when the launch returned an instance id, the outputs label and
\* ec2-instance-id are emitted no later than the ready wait begins, and an
\* emitted output stays emitted whatever happens afterwards.
C2_OutputsEmittedAndKept ==
    /\ [](mode = "start" /\ (startInstanceId # "" \/ calls.wait > 0)
            => (startInstanceId \in InstanceIds /\ outputs = bothOutputs))
    /\ [][outputs \subseteq outputs']_vars

\* C2 witness: the registration wait or the ready wait failed fatally and the
\* outputs are still there
C2_Witness ==
    /\ pc \in {"failed", "unhandled"}
    /\ calls.wait = 1
    /\ outputs = bothOutputs

\* C3: on the stop path the runner lookup and the delete request are issued
\* only after the terminate step succeeded; after a fatal terminate (request
\* error or unrecognized state code) neither is ever issued.
C3_RemovalOnlyAfterTerminate ==
    mode = "stop" =>
        /\ ((calls.list > 0 \/ calls.delete > 0 \/ lookupIn # Undefined)
              => (calls.terminate = 1 /\ terminateOk /\ ~terminateFailed))
        /\ (terminateFailed => (calls.list = 0 /\ calls.delete = 0 /\ lookupIn = Undefined))

\* C3 witness: a stop run that terminated and then sent the delete request
C3_Witness == mode = "stop" /\ pc = "delete" /\ calls.delete = 1

\* C4: every fatal error that ends a path (an Error thrown by a step, or the
\* registration waiter's timeout rejection) is passed, by its message, to
\* setFailed; a run in which every step succeeded is never marked failed.
C4_FatalErrorMarksFailed ==
    /\ (thrown # Undefined => thrown[1].message \in failedMsgs)
    /\ (pc = "done" => failedMsgs = {})

\* C5: the waiter reaches REGISTERED on the first lookup that reports online,
\* the k-th, having issued exactly k lookups, and issues none afterwards.
C5_RegisteredAfterExactlyKLookups ==
    [][/\ (promise = "pending" /\ promise' = "resolved" => calls'.list = polled')
       /\ (promise = "resolved" => calls'.list = calls.list)]_vars

\* C6: when no lookup reports online the waiter reaches TIMED_OUT after exactly
\* ceil(timeout / retryInterval) lookups and rejects with an error naming the
\* timeout minutes.
C6_TimedOutAfterCeilAttempts ==
    [][promise = "pending" /\ promise' = "rejected"
         => /\ polled' = initialAttempts
            /\ calls'.list = initialAttempts
            /\ thrown' # Undefined
            /\ thrown'[1].message.num = timeoutMinutes]_vars

\* Requests of the main flow awaiting their response
mainOutstanding ==
    IF pc \in {"token", "launch", "ready", "terminate", "lookup", "delete"} THEN 1 ELSE 0

\* C7: at most one runner lookup is in flight at any time, and no two
\* external calls of the process are outstanding together.
C7_OneCallOutstanding == inflight <= 1 /\ inflight + mainOutstanding <= 1

\* C8: the waiter starts in its quiet period, and no lookup is issued (no
\* interval timer even exists) before the quiet period's timer has fired.
C8_NoLookupBeforeQuietPeriodEnds ==
    mode = "start" =>
        /\ (quietTimer # "fired"
              => (calls.list = 0 /\ inflight = 0 /\ ~timerArmed /\ promise = "none"))
        /\ (pc = "quiet" <=> quietTimer = "armed")

\* C8 witness: the quiet period has elapsed and a lookup was issued
C8_Witness == mode = "start" /\ quietTimer = "fired" /\ calls.list > 0

\* C9: once the waiter has started, under fair timers and answered lookups its
\* promise is eventually settled, resolved (REGISTERED) or rejected
\* (TIMED_OUT), and once settled it never changes.
C9_WaiterRunsToCompletion ==
    /\ (quietTimer = "armed") ~> (promise \in {"resolved", "rejected"})
    /\ [][(promise \in {"resolved", "rejected"}) => (promise' = promise)]_vars

\* C9 witness: the waiter timed out after lookups that failed, found nothing
\* or found the runner offline
C9_Witness == promise = "rejected" /\ polled > initialAttempts

\* C10: getRunner never throws: it returns a runner of the listing that
\* carries the label or undefined, and a failed listing request gives the same
\* value, undefined, as a listing without a matching runner.
C10_GetRunnerNeverThrows ==
    lookupIn # Undefined =>
        LET listing == lookupIn[1]
            rs == listing.runners
            lbl == lastArg.list
        IN  /\ ~lookupOut.threw
            /\ pc # "unhandled" \/ promise = "rejected"
            /\ (~listing.ok => lookupOut.value = Undefined)
            /\ ((listing.ok /\ \A i \in 1..Len(rs) : ~hasLabel(rs[i], lbl))
                  => lookupOut.value = Undefined)
            /\ (lookupOut.value # Undefined
                  => \E i \in 1..Len(rs) : rs[i] = lookupOut.value[1] /\ hasLabel(rs[i], lbl))

\* C10 witness: a lookup whose listing request failed returned undefined
C10_Witness ==
    /\ lookupIn # Undefined
    /\ ~lookupIn[1].ok
    /\ lookupOut.value = Undefined
    /\ calls.list > 0

\* The last lookup that returned found no runner for the label: the listing
\* request failed, or no listed runner carries the label
lookupFoundNothing(lbl) ==
    /\ lookupIn # Undefined
    /\ \/ ~lookupIn[1].ok
       \/ \A i \in 1..Len(lookupIn[1].runners) : ~hasLabel(lookupIn[1].runners[i], lbl)

\* C11: the registration waiter fails only by its timeout rejection, never
\* before as many lookups as the attempt budget have returned; a lookup that
\* ends in a transport error or in not-found before that point is counted as
\* one unsuccessful attempt and polling continues.
C11_OnlyFailureIsTimeout ==
    /\ []((mode = "start" /\ waiterStarted /\ pc \in {"failed", "unhandled"})
            => /\ promise = "rejected"
               /\ thrown = Some(StringVal(Msg("A timeout is exceeded", timeoutMinutes, <<>>)))
               /\ polled * retryIntervalSeconds >= timeoutMinutes * 60)
    /\ [][(/\ mode = "start"
           /\ promise = "pending"
           /\ polled' = polled + 1
           /\ lookupFoundNothing(startLabel)'
           /\ polled' * retryIntervalSeconds < timeoutMinutes * 60)
            => (/\ promise' = "pending"
                /\ timerArmed'
                /\ pc' = "polling"
                /\ attempts' = attempts - 1
                /\ failedMsgs' = failedMsgs
                /\ thrown' = Undefined)]_vars

\* C11 witness: a lookup of the waiter ended in a transport error and the
\* waiter is still polling, one attempt poorer
C11_Witness ==
    /\ mode = "start"
    /\ polled >= 1
    /\ lookupIn # Undefined
    /\ ~lookupIn[1].ok
    /\ promise = "pending"
    /\ timerArmed
    /\ attempts = initialAttempts - polled

\* The path has ended without any failure being reported or thrown
completedWithoutError == pc = "done" /\ failedMsgs = {} /\ thrown = Undefined

\* C12: on the stop path, when the remover's lookup returns not-found the
\* remover completes without error and no delete request is issued; when the
\* lookup returns a runner, exactly one delete request is issued, for that
\* runner's id, and if it answers with status 204 the remover completes
\* without error.
C12_RemoverHappyPaths ==
    (mode = "stop" /\ lookupIn # Undefined) =>
        IF lookupFoundNothing(label)
        THEN completedWithoutError /\ calls.delete = 0 /\ result.delete = Undefined
        ELSE /\ calls.delete = 1
             /\ \E i \in 1..Len(lookupIn[1].runners) :
                   /\ hasLabel(lookupIn[1].runners[i], label)
                   /\ \A j \in 1..(i - 1) : ~hasLabel(lookupIn[1].runners[j], label)
                   /\ lastArg.delete = lookupIn[1].runners[i].id
             /\ (result.delete # Undefined /\ result.delete[1].ok
                   /\ result.delete[1].status = 204)
                  => (completedWithoutError
                      /\ logged("info", "GitHub self-hosted runner is removed"))

\* C12 witness: the runner was found and its delete request answered 204
C12_Witness ==
    /\ mode = "stop"
    /\ ~lookupFoundNothing(label)
    /\ result.delete # Undefined
    /\ result.delete[1].ok
    /\ result.delete[1].status = 204
    /\ pc = "done"

\* C13: on the stop path, when the lookup returned a runner and the delete
\* request throws a transport error or answers with a status other than 204,
\* the remover ends with a fatal error and the process is marked failed; the
\* error of a non-204 answer carries the observed status in its message.
C13_RemoverFailures ==
    (/\ mode = "stop"
     /\ result.delete # Undefined
     /\ (~result.delete[1].ok \/ result.delete[1].status # 204))
    => /\ pc = "failed"
       /\ thrown # Undefined
       /\ thrown[1].kind = "Error"
       /\ thrown[1].message \in failedMsgs
       /\ logged("error", "GitHub self-hosted runner removal error")
       /\ ~logged("info", "GitHub self-hosted runner is removed")
       /\ result.delete[1].ok
            => /\ thrown[1].message.text = "Failed to remove runner, status"
               /\ thrown[1].message.num = result.delete[1].status

\* C13 witness: the delete request answered 202 and the run is marked failed
C13_Witness ==
    /\ mode = "stop"
    /\ result.delete # Undefined
    /\ result.delete[1].ok
    /\ result.delete[1].status = 202
    /\ failedMsgs # {}

\* The terminate request succeeded and gave the lifecycle code c as a number
terminateReturnedCode(c) ==
    /\ mode = "stop"
    /\ result.terminate # Undefined
    /\ result.terminate[1].ok
    /\ result.terminate[1].CurrentState = [t |-> "number", n |-> c]

\* The terminator logged that the instance is in the state called name
terminateLogged(name) ==
    [level |-> "info", msg |-> Msg("AWS EC2 instance is", 0, <<ec2InstanceId, name>>)] \in log

\* C14: given a returned lifecycle code (a number of the code range 0..255)
\* of 48 the terminator logs a "terminated" success message and returns
\* normally, likewise for 32 shutting-down, 64 stopping and 80 stopped; given
\* any other code it raises a fatal error whose message contains that code.
C14_TerminatorDecoding ==
    \A c \in 0..255 :
        terminateReturnedCode(c) =>
            LET name == CASE c = 32 -> "shutting-down"
                          [] c = 48 -> "terminated"
                          [] c = 64 -> "stopping"
                          [] c = 80 -> "stopped"
                          [] OTHER -> ""
            IN  IF name # ""
                THEN /\ terminateLogged(name)
                     /\ ~terminateFailed
                     /\ calls.list = 1
                ELSE /\ pc = "failed"
                     /\ ~terminateOk
                     /\ thrown # Undefined
                     /\ thrown[1].kind = "Error"
                     /\ thrown[1].message.text = "Failed to terminate, EC2 instance has state"
                     /\ thrown[1].message.num = c
                     /\ thrown[1].message \in failedMsgs
                     /\ calls.list = 0

\* C14 witness: the code 99 was returned and the terminator failed with it
C14_Witness == terminateReturnedCode(99) /\ pc = "failed" /\ thrown # Undefined

\* C15: the terminator's transport-error report (`termination error`) is
\* produced only when the terminate request itself errored, its
\* unexpected-state report only when the request succeeded with an
\* unrecognized code, and no single failure produces both reports.
C15_TerminatorReportsDistinct ==
    mode = "stop" =>
        /\ logged("error", "AWS EC2 instance termination error")
              => (result.terminate # Undefined /\ ~result.terminate[1].ok)
        /\ logged("error", "Failed to terminate, EC2 instance has state")
              => (result.terminate # Undefined /\ result.terminate[1].ok)
        /\ ~(/\ logged("error", "AWS EC2 instance termination error")
             /\ logged("error", "Failed to terminate, EC2 instance has state"))

\* The launch response carries no instance identifier: no Instances, empty
\* Instances, or a first entry without InstanceId
launchGaveNoId(r) ==
    \/ r.Instances = Undefined
    \/ Len(r.Instances[1]) = 0
    \/ r.Instances[1][1].InstanceId = ""

\* C16: if the launch request throws, or succeeds with a response that
\* carries no instance identifier, startEc2Instance ends with a fatal error;
\* it returns normally only with a non-empty instance identifier, the one of
\* the first instance of the response.
C16_LauncherFailure ==
    (mode = "start" /\ result.launch # Undefined) =>
        LET r == result.launch[1]
        IN  IF ~r.ok \/ launchGaveNoId(r)
            THEN /\ pc = "failed"
                 /\ thrown # Undefined
                 /\ thrown[1].kind = "Error"
                 /\ thrown[1].message \in failedMsgs
                 /\ launchFailed
                 /\ ~launchOk
                 /\ startInstanceId = ""
                 /\ calls.wait = 0
            ELSE /\ startInstanceId = r.Instances[1][1].InstanceId
                 /\ startInstanceId # ""
                 /\ lastArg.wait = startInstanceId
                 /\ calls.wait = 1
                 /\ ~launchFailed

\* C16 witness: the launch succeeded with an empty Instances list and the
\* start failed
C16_Witness ==
    /\ mode = "start"
    /\ result.launch # Undefined
    /\ result.launch[1].ok
    /\ result.launch[1].Instances = Some(<<>>)
    /\ pc = "failed"

\* C20: waitForInstanceRunning returns normally only when the provider wait
\* result has state SUCCESS; any other result state ends in a fatal error
\* whose message names the observed state, and an error thrown by the
\* provider wait ends in a fatal error; in both failure cases the
\* registration wait is never started.
C20_ReadyWaiterOutcomes ==
    (mode = "start" /\ result.wait # Undefined) =>
        LET r == result.wait[1]
        IN  IF r.ok /\ r.state = "SUCCESS"
            THEN waiterStarted /\ readyOk /\ ~readyFailed
            ELSE /\ pc = "failed"
                 /\ thrown # Undefined
                 /\ thrown[1].kind = "Error"
                 /\ thrown[1].message \in failedMsgs
                 /\ readyFailed
                 /\ ~readyOk
                 /\ ~waiterStarted
                 /\ promise = "none"
                 /\ calls.list = 0
                 /\ r.ok => /\ thrown[1].message.text
                                  = "AWS EC2 instance initialization error state"
                            /\ thrown[1].message.strs = <<startInstanceId, r.state>>

\* C20 witness: the provider wait ended with state TIMEOUT and the start failed
C20_Witness ==
    /\ mode = "start"
    /\ result.wait # Undefined
    /\ result.wait[1].ok
    /\ result.wait[1].state = "TIMEOUT"
    /\ pc = "failed"

\* Decoding of base64: four digits give back up to three bytes
RECURSIVE fromBase64(_)
fromBase64(digits) ==
    IF Len(digits) < 4
    THEN <<>>
    ELSE <<digits[1] * 4 + digits[2] \div 16>>
           \o (IF digits[3] = 64 THEN <<>>
               ELSE <<(digits[2] % 16) * 16 + digits[3] \div 4>>)
           \o (IF digits[4] = 64 THEN <<>>
               ELSE <<(digits[3] % 4) * 64 + digits[4]>>)
           \o fromBase64(SubSeq(digits, 5, Len(digits)))

\* digits is a well-formed base64 string
isBase64(digits) ==
    /\ Len(digits) % 4 = 0
    /\ \A i \in 1..Len(digits) :
          /\ digits[i] \in 0..64
          /\ digits[i] = 64 => (i > Len(digits) - 2 /\ \A j \in i..Len(digits) : digits[j] = 64)

\* The text a base64 string decodes to
decoded(digits) ==
    LET bytes == fromBase64(digits)
    IN  [i \in 1..Len(bytes) |-> Alphabet[bytes[i]]]

contains(text, w) == \E i \in 1..Len(text) : text[i] = w

\* startEc2Instance has submitted its launch request
launchSubmitted == mode = "start" /\ lastArg.launch # <<>>

launchUserData == lastArg.launch[1].UserData

\* The request carries non-empty base64 UserData that decodes to a text with
\* the label and the registration token passed to startEc2Instance
userDataWiresLabelAndToken ==
    /\ "UserData" \in DOMAIN lastArg.launch[1]
    /\ launchUserData # <<>>
    /\ isBase64(launchUserData)
    /\ contains(decoded(launchUserData), startLabel)
    /\ contains(decoded(launchUserData), githubRegistrationToken)
    /\ startLabel \in Labels
    /\ githubRegistrationToken \in Tokens

substituted(text, lbl, token) ==
    [i \in 1..Len(text) |->
        CASE text[i] = LabelPlaceholder -> lbl
          [] text[i] = TokenPlaceholder -> token
          [] OTHER -> text[i]]

\* C18: when the override request carries UserData, the payload submitted is
\* that UserData with exactly the placeholders ${label} and
\* ${githubRegistrationToken} replaced, at every occurrence, by the generated
\* label and the registration token, and all other text untouched; without
\* placeholders it is the override's payload unchanged.
C18_PlaceholdersSubstituted ==
    (launchSubmitted /\ overrideUserData(ec2Params) # <<>>) =>
        decoded(launchUserData)
          = substituted(overrideUserData(ec2Params), startLabel, githubRegistrationToken)

\* C19: when an override request is present, the submitted launch request
\* equals the override in every field other than UserData: no field of the
\* override is dropped or changed, and no field of the named configuration
\* (image, instance type, subnet, security group, IAM profile, tags, key
\* name, disk) is added.
C19_OverrideFieldsKept ==
    (launchSubmitted /\ ec2Params # Null) =>
        LET request == lastArg.launch[1]
            override == ec2Params[1]
        IN  /\ DOMAIN request = DOMAIN override \cup {"UserData"}
            /\ \A f \in DOMAIN override \ {"UserData"} : request[f] = override[f]
            /\ \A f \in {"SubnetId", "SecurityGroupIds", "IamInstanceProfile",
                          "TagSpecifications", "KeyName", "BlockDeviceMappings"} :
                  f \in DOMAIN request => f \in DOMAIN override

\* C19 witness: a request was submitted for an override while all the named
\* inputs were given as well
C19_Witness ==
    /\ launchSubmitted
    /\ ec2Params = Some(OverrideBase)
    /\ named = AllNamed
    /\ lastArg.launch[1].ImageId = "ami-9"

\* C21: in one invocation the registration-token request, the launch request,
\* the wait-until-running call, the terminate request and the runner delete
\* request are each issued at most once, also after a failure, and an issued
\* request is never taken back; only the runner listing is issued more often.
C21_AttemptOnce ==
    /\ [](/\ calls.token <= 1
          /\ calls.launch <= 1
          /\ calls.wait <= 1
          /\ calls.terminate <= 1
          /\ calls.delete <= 1
          /\ (mode = "stop" => calls.list <= 1))
    /\ [][\A k \in DOMAIN calls : calls'[k] \in {calls[k], calls[k] + 1}]_vars
    /\ [][(thrown # Undefined \/ pc \in {"failed", "unhandled"})
            => \A k \in DOMAIN calls \ {"list"} : calls'[k] = calls[k]]_vars

\* C21 witness: the start path has failed after several listing requests and
\* one request of each other kind
C21_Witness ==
    /\ pc = "unhandled"
    /\ calls.list > 1
    /\ calls.token = 1
    /\ calls.launch = 1
    /\ calls.wait = 1

\* The inputs carry one of the configuration errors: the mode or the GitHub
\* token is missing, the mode is neither start nor stop, the start mode has
\* neither an override request nor all of image id, instance type, subnet and
\* security group, or the stop mode lacks the label or the instance id
configurationError ==
    \/ mode = ""
    \/ githubToken = ""
    \/ mode \notin {"start", "stop"}
    \/ /\ mode = "start"
       /\ ec2Params = Null
       /\ \E f \in {"ec2ImageId", "ec2InstanceType", "subnetId", "securityGroupId"} :
             named[f] = ""
    \/ /\ mode = "stop"
       /\ (label = "" \/ ec2InstanceId = "")

\* C22: with a configuration error in the inputs, the validation marks the
\* process failed and no token, launch, wait, terminate, listing or delete
\* request is ever issued.
C22_ConfigurationErrorsFirst ==
    /\ [](configurationError
            => /\ calls = NoCalls
               /\ outputs = {}
               /\ \/ pc = "load"
                  \/ /\ pc = "failed"
                     /\ failedMsgs # {}
                     /\ thrown # Undefined
                     /\ thrown[1].message \in failedMsgs
                     /\ [level |-> "error", msg |-> thrown[1].message] \in log)
    /\ [][(configurationError /\ pc = "load") => (pc' = "failed" /\ failedMsgs' # {})]_vars

\* C22 witness: the stop mode was given no label and the process is marked
\* failed
C22_Witness ==
    /\ mode = "stop"
    /\ githubToken # ""
    /\ label = ""
    /\ ec2InstanceId # ""
    /\ pc = "failed"
    /\ failedMsgs # {}

\* The value emitted for the output called name, if any
outputValues(name) == {o.value : o \in {p \in outputs : p.name = name}}

\* C23: on the start path the label is generated once and never changes; the
\* label given to the Launcher, the label emitted as output and the label of
\* every lookup of the registration wait are that same value; the instance
\* id given to the Ready-Waiter and emitted as output is exactly the id the
\* launch returned.
C23_IdentifierPropagation ==
    /\ []((mode = "start" /\ calls.launch > 0)
            => /\ startLabel \in Labels
               /\ lastArg.launcher.label = startLabel)
    /\ [](mode = "start" => outputValues("label") \subseteq {startLabel})
    /\ []((mode = "start" /\ calls.list > 0) => lastArg.list = startLabel)
    /\ []((mode = "start" /\ calls.wait > 0)
            => /\ result.launch # Undefined
               /\ result.launch[1].Instances # Undefined
               /\ lastArg.wait = result.launch[1].Instances[1][1].InstanceId
               /\ outputValues("ec2-instance-id") = {lastArg.wait}
               /\ outputValues("label") = {startLabel})
    /\ [][startLabel # "" => startLabel' = startLabel]_vars

\* C23 witness: the registration wait has sent several lookups for the label
\* that was emitted as output
C23_Witness ==
    /\ mode = "start"
    /\ calls.list > 1
    /\ lastArg.list = startLabel
    /\ outputValues("label") = {startLabel}
    /\ outputValues("ec2-instance-id") = {startInstanceId}

\* C24: on the stop path the Terminator is called exactly once, with exactly
\* the instance id supplied as input, the Remover looks up exactly the label
\* supplied as input, and when the terminate succeeded and the lookup finds
\* no match the run completes as a no-op: no delete request, and the process
\* not marked failed.
C24_StopEndToEnd ==
    (mode = "stop" /\ pc \notin {"load", "main"} /\ ~configurationError) =>
        /\ calls.terminate = 1
        /\ lastArg.terminate = ec2InstanceId
        /\ ec2InstanceId \in InstanceIds
        /\ calls.list > 0 => (calls.list = 1 /\ lastArg.list = label /\ label \in Labels)
        /\ (/\ terminateOk
            /\ lookupIn # Undefined
            /\ lookupIn[1].ok
            /\ \A i \in 1..Len(lookupIn[1].runners) : ~hasLabel(lookupIn[1].runners[i], label))
             => /\ pc = "done"
                /\ calls.delete = 0
                /\ failedMsgs = {}
                /\ thrown = Undefined
                /\ logged("info",
                          "GitHub self-hosted runner is not found, so the removal is skipped")

\* C24 witness: a stop run that terminated the instance, listed runners that
\* do not carry the label, and finished
C24_Witness ==
    /\ mode = "stop"
    /\ terminateOk
    /\ lookupIn # Undefined
    /\ lookupIn[1].ok
    /\ Len(lookupIn[1].runners) > 0
    /\ \A i \in 1..Len(lookupIn[1].runners) : ~hasLabel(lookupIn[1].runners[i], label)
    /\ pc = "done"
    /\ calls.terminate = 1

\* The label the lookups of this invocation search for
targetLabel == IF mode = "start" THEN startLabel ELSE label

\* C25: for every runner list and target label, getRunner returns the first
\* runner in listing order whose label set contains a label with exactly the
\* target name, at any position of the label set, and returns not-found
\* exactly when no runner of the list has such a label.
C25_LookupSelection ==
    (lookupIn # Undefined /\ lookupIn[1].ok) =>
        LET rs == lookupIn[1].runners
            matching == {i \in 1..Len(rs) :
                           \E k \in 1..Len(rs[i].labels) : rs[i].labels[k] = targetLabel}
        IN  /\ ~lookupOut.threw
            /\ (lookupOut.value = Undefined) <=> (matching = {})
            /\ matching # {}
                 => \E i \in matching :
                       /\ \A j \in matching : i <= j
                       /\ lookupOut.value = Some(rs[i])

\* C25 witness: of two listed runners that carry the label after other
\* labels or alone, the lookup returned the one listed first
C25_Witness ==
    /\ lookupIn # Undefined
    /\ lookupIn[1].ok
    /\ Len(lookupIn[1].runners) = 3
    /\ targetLabel = "zq81x"
    /\ lookupOut.value # Undefined
    /\ lookupOut.value[1].id = 12
    /\ lookupOut.value[1].labels[1] # targetLabel

\* A lookup returns in this step: in a callback of the registration wait, or
\* in removeRunner
lookupReturns == polled' = polled + 1 \/ (pc = "lookup" /\ pc' # "lookup")

failedStep ==
    CASE mode = "start" /\ calls.launch = 0 -> "token fetch"
      [] mode = "start" /\ calls.launch = 1 /\ calls.wait = 0 -> "launch"
      [] mode = "start" /\ calls.wait = 1 /\ ~waiterStarted -> "ready wait"
      [] mode = "start" /\ waiterStarted -> "registration wait"
      [] mode = "stop" /\ calls.list = 0 -> "terminate"
      [] OTHER -> "removal"

\* The error-level line each step writes when it fails
stepErrorLine(step) ==
    CASE step = "token fetch" -> "GitHub Registration Token receiving error"
      [] step = "launch" -> "AWS EC2 instance starting error"
      [] step = "ready wait" -> "AWS EC2 instance initialization error"
      [] step = "registration wait" -> "GitHub self-hosted runner registration error"
      [] step = "terminate" -> "AWS EC2 instance termination error"
      [] step = "removal" -> "GitHub self-hosted runner removal error"

\* The step in progress has written its error line
stepErrorLogged == logged("error", stepErrorLine(failedStep))

\* C27: every fatal error of a step (token fetch, launch, ready wait,
\* registration wait, terminate, removal) has been logged at error level by
\* that step when it reaches the handler of the Lifecycle Controller.
C27_FatalErrorsLogged ==
    /\ []((thrown # Undefined /\ ~configurationError)
            => /\ pc \in {"failed", "unhandled"}
               /\ stepErrorLogged)
    /\ [][(thrown = Undefined /\ thrown' # Undefined /\ ~configurationError)
            => /\ ~stepErrorLogged
               /\ stepErrorLogged'
               /\ [level |-> "error", msg |-> thrown'[1].message] \in log']_vars

\* C27 witness: the launch failed and its error line is in the log
C27_Witness ==
    /\ thrown # Undefined
    /\ failedStep = "launch"
    /\ logged("error", "AWS EC2 instance starting error")
    /\ pc = "failed"

\* C28: on the stop path, when the terminate succeeded and the runner listing
\* request fails with a transport error, the removal is a completed no-op: no
\* delete request is issued and the run ends without the process being marked
\* failed.
C28_StopListingFailureIsNoOp ==
    (mode = "stop" /\ lookupIn # Undefined /\ ~lookupIn[1].ok) =>
        /\ terminateOk
        /\ calls.terminate = 1
        /\ calls.list = 1
        /\ calls.delete = 0
        /\ result.delete = Undefined
        /\ runner = Undefined
        /\ pc = "done"
        /\ failedMsgs = {}
        /\ thrown = Undefined
        /\ logged("error", "Get runner error")

\* C28 witness: a stop run whose listing request failed and which finished
C28_Witness ==
    /\ mode = "stop"
    /\ result.terminate # Undefined
    /\ result.terminate[1].ok
    /\ lookupIn = Some(ListingError)
    /\ pc = "done"
    /\ failedMsgs = {}

\* The name of a recognized lifecycle code, or "" for every other code
stateName(c) ==
    CASE c = 32 -> "shutting-down"
      [] c = 48 -> "terminated"
      [] c = 64 -> "stopping"
      [] c = 80 -> "stopped"
      [] OTHER -> ""

\* C29: when the terminate response gives the current state as the client's
\* state record (a numeric Code with a Name), the terminator classifies it by
\* the record's Code: a record with Code 32, 48, 64 or 80 ends in the success
\* log and the stop path goes on to the runner removal.
C29_StateRecordClassifiedByCode ==
    (/\ mode = "stop"
     /\ result.terminate # Undefined
     /\ result.terminate[1].ok
     /\ result.terminate[1].CurrentState.t = "object"
     /\ result.terminate[1].CurrentState.n \in {32, 48, 64, 80})
    => /\ terminateLogged(stateName(result.terminate[1].CurrentState.n))
       /\ ~terminateFailed
       /\ calls.list = 1

\* C30: the terminator's decision depends only on the low 8 bits of the
\* returned state value: values equal modulo 256 give the same outcome (304
\* is accepted like 48), a response without a state is treated as the value
\* 0, and the values 0 and 16 are fatal.
C30_LowEightBitsDecide ==
    (/\ mode = "stop"
     /\ result.terminate # Undefined
     /\ result.terminate[1].ok
     /\ result.terminate[1].CurrentState.t \in {"number", "undefined"})
    => LET value == IF result.terminate[1].CurrentState.t = "number"
                    THEN result.terminate[1].CurrentState.n
                    ELSE 0
           low == value % 256
       IN  /\ IF stateName(low) # ""
              THEN /\ terminateLogged(stateName(low))
                   /\ ~terminateFailed
                   /\ calls.list = 1
              ELSE /\ pc = "failed"
                   /\ ~terminateOk
                   /\ thrown # Undefined
                   /\ thrown[1].message
                        = Msg("Failed to terminate, EC2 instance has state", low, <<>>)
                   /\ calls.list = 0
           /\ low \in {0, 16} => (pc = "failed" /\ failedMsgs # {})

\* C30 witness: the value 304 was returned and the instance was logged as
\* terminated
C30_Witness ==
    /\ terminateReturnedCode(304)
    /\ terminateLogged("terminated")
    /\ calls.list = 1

\* The lookup that returns in this step of the registration wait reports a
\* runner with status online
lookupReportsOnline ==
    /\ mode = "start"
    /\ polled' = polled + 1
    /\ lookupOut'.value # Undefined
    /\ lookupOut'.value[1].status = "online"

\* C31: in the registration waiter the online check comes before the attempt
\* budget: whenever a lookup completes with a runner whose status is online,
\* the waiter ends in REGISTERED, also when the remaining-attempts counter is
\* zero or negative; TIMED_OUT is declared only on the completion of a lookup
\* that did not report online.
C31_OnlineBeforeBudget ==
    /\ [][lookupReportsOnline
            => /\ promise' = "resolved"
               /\ pc' = "done"
               /\ ~timerArmed'
               /\ attempts' = attempts
               /\ thrown' = Undefined
               /\ failedMsgs' = failedMsgs
               /\ logged("info", "GitHub self-hosted runner is registered and ready to use")'
               /\ logged("error", "GitHub self-hosted runner registration error")'
                    = logged("error", "GitHub self-hosted runner registration error")]_vars
    /\ [][(promise = "pending" /\ promise' = "rejected")
            => (polled' = polled + 1 /\ ~lookupReportsOnline)]_vars
    /\ [][(promise = "pending" /\ promise' = "resolved") => lookupReportsOnline]_vars

\* C31 witness: the waiter ended in REGISTERED with its attempts counter
\* below zero
C31_Witness ==
    /\ mode = "start"
    /\ promise = "resolved"
    /\ pc = "done"
    /\ attempts < 0
    /\ ~logged("error", "GitHub self-hosted runner registration error")

\* C32: the registration waiter's terminal state is absorbing: after it
\* reached REGISTERED it never reports or logs a timeout, and after it reached
\* TIMED_OUT it never reports or logs a successful registration, also when
\* lookups that were still in flight complete afterwards.
C32_TerminalStateAbsorbing ==
    /\ [][promise = "resolved"
            => /\ promise' = "resolved"
               /\ thrown' = thrown
               /\ logged("error", "GitHub self-hosted runner registration error")'
                    = logged("error", "GitHub self-hosted runner registration error")]_vars
    /\ [][promise = "rejected"
            => /\ promise' = "rejected"
               /\ logged("info", "GitHub self-hosted runner is registered and ready to use")'
                    = logged("info", "GitHub self-hosted runner is registered and ready to use")]_vars

\* The lookups one registration wait sends when every lookup is answered
\* before the next tick: the attempts budget, and the two further lookups
\* that the test `attempts-- < 0` lets through
lookupsWhenPrompt == (timeoutMinutes * 60) \div retryIntervalSeconds + 2

\* C33: the number of runner lookups issued by one registration wait never
\* exceeds a fixed bound determined by the timeout and the retry interval,
\* whatever the latency of the lookups.
C33_LookupCountBounded == mode = "start" => calls.list <= lookupsWhenPrompt

\* C34: the two paths are disjoint and there is no cleanup.  A start run
\* never sends a terminate-instance or a delete-runner request, also after the
\* launch gave no id or a later step failed; a stop run never sends a
\* registration-token, launch or wait-until-running request and emits no
\* output.
C34_PathsDisjoint ==
    /\ mode = "start" => /\ calls.terminate = 0
                         /\ calls.delete = 0
                         /\ pc \notin {"terminate", "lookup", "delete"}
    /\ mode = "stop" => /\ calls.token = 0
                        /\ calls.launch = 0
                        /\ calls.wait = 0
                        /\ outputs = {}
                        /\ pc \notin {"token", "launch", "ready", "quiet", "polling"}

C34_Witness ==
    /\ mode = "start"
    /\ pc \in {"failed", "unhandled"}
    /\ calls.launch = 1
    /\ calls.terminate = 0
    /\ calls.delete = 0

\* The launch request was answered, with a result whose first instance has an id
launchReturnedId ==
    /\ result.launch # Undefined
    /\ result.launch[1].ok
    /\ ~launchGaveNoId(result.launch[1])

\* C35: the outputs label and ec2-instance-id are emitted only in runs where
\* the launch returned a non-empty instance id, and always both together, in
\* one step; if the token fetch fails, the launch request errors or the launch
\* response carries no instance id, neither output is ever emitted.
C35_OutputsOnlyWithInstanceId ==
    /\ [](\/ outputs = {}
          \/ /\ outputs = bothOutputs
             /\ launchReturnedId
             /\ startInstanceId # "")
    /\ []((tokenFailed \/ launchFailed \/ (result.launch # Undefined /\ ~launchReturnedId))
            => outputs = {})
    /\ [][outputs' # outputs
            => /\ outputs = {}
               /\ outputs' = bothOutputs'
               /\ result.launch = Undefined
               /\ launchReturnedId']_vars

C35_Witness ==
    /\ mode = "start"
    /\ pc = "failed"
    /\ result.launch # Undefined
    /\ result.launch[1].ok
    /\ launchGaveNoId(result.launch[1])
    /\ outputs = {}

====
